---- MODULE Spec2Model ----
(***************************************************************************)
(* Test-Fixture-Manager (src/app.py): the availability engine and the      *)
(* borrow ledger.  The inventory workbook and the ledger workbook are the  *)
(* program's state; every request handler re-reads them.                   *)
(*                                                                         *)
(* Text is a sequence of one-character strings, so that strip(), upper()   *)
(* and the substring test are computed as Python computes them.            *)
(***************************************************************************)
EXTENDS Integers, Sequences, FiniteSets, TLC

VARIABLES
    fixFile,    \* rows of sheet 'Fixtures' of FIX_FILE, as stored (raw cells)
    ledger,     \* rows of BORROW_FILE, as pd.read_excel returns them
    clock,      \* wall clock, in seconds (datetime.now())
    issued,     \* number of uuid4() values drawn so far
    req,        \* the request the last finished handler served
    last,       \* the response of the last finished handler
    before,     \* BORROW_FILE as it was when that handler started
    memo,       \* the last successful borrow, while nothing has run since
    procs       \* the requests in flight (threaded server), per worker

vars == <<fixFile, ledger, clock, issued, req, last, before, memo, procs>>

----------------------------------------------------------------------------
(* Bounds of the model *)

\* rows the ledger may hold
MaxLoans == 2
\* seconds the clock may reach
MaxTime == 2
\* concurrent workers of the threaded server
NumWorkers == 2

----------------------------------------------------------------------------
(* Text *)

Lower == <<"a","b","c","d","e","f","g","h","i","j","k","l","m",
           "n","o","p","q","r","s","t","u","v","w","x","y","z">>
Caps  == <<"A","B","C","D","E","F","G","H","I","J","K","L","M",
           "N","O","P","Q","R","S","T","U","V","W","X","Y","Z">>
Digits == <<"0","1","2","3","4","5","6","7","8","9">>
Whitespace == {" ", "\t", "\n"}

\* the capital of each small letter
CapOf == [c \in { Lower[i] : i \in DOMAIN Lower } |->
             Caps[CHOOSE i \in DOMAIN Lower : Lower[i] = c]]

UpperChar(c) == IF c \in DOMAIN CapOf THEN CapOf[c] ELSE c

\* str.upper()
Upper(s) == [i \in DOMAIN s |-> UpperChar(s[i])]

RECURSIVE LStrip(_)
LStrip(s) ==
    IF s # <<>> /\ Head(s) \in Whitespace THEN LStrip(Tail(s)) ELSE s

RECURSIVE RStrip(_)
RStrip(s) ==
    IF s # <<>> /\ s[Len(s)] \in Whitespace
    THEN RStrip(SubSeq(s, 1, Len(s) - 1))
    ELSE s

\* str.strip()
Strip(s) == RStrip(LStrip(s))

\* the Python test  sub in s
Contains(s, sub) ==
    \E i \in 1..(Len(s) - Len(sub) + 1) : SubSeq(s, i, i + Len(sub) - 1) = sub

\* a missing cell of a text column (NaN / pd.NA / None)
NA == <<"<NA>">>

\* Series.astype(str) on one cell: a missing cell becomes the text 'nan'
AsStr(v) == IF v = NA THEN <<"n","a","n">> ELSE v

\* Series.str.strip() on one cell (after astype(str))
StrStrip(v) == Strip(AsStr(v))

----------------------------------------------------------------------------
(* Numeric cells *)

\* a cell of a numeric column: a number, a text that is no number, or blank
Num(n) == [t |-> "num", v |-> n]
Txt    == [t |-> "text", v |-> 0]
Blank  == [t |-> "nan", v |-> 0]

\* pd.to_numeric(cell, errors='coerce') followed by fillna(0)
ToNumeric(c) == IF c.t = "num" THEN c.v ELSE 0

RECURSIVE SumSeq(_)
SumSeq(s) == IF s = <<>> THEN 0 ELSE Head(s) + SumSeq(Tail(s))

Max(a, b) == IF a >= b THEN a ELSE b

----------------------------------------------------------------------------
(* Inventory snapshot *)

\* load_fixtures: Article and Fixture Type are stringified and stripped,
\* Fixture Description stringified, the quantity coerced to an int
\* (0 when it is no number); the sign of the quantity is kept.
load_fixtures(file) ==
    [i \in DOMAIN file |->
        [Article     |-> StrStrip(file[i].Article),
         PartNumber  |-> file[i].PartNumber,
         FixtureType |-> StrStrip(file[i].FixtureType),
         Description |-> AsStr(file[i].Description),
         Location    |-> file[i].Location,
         Qty         |-> ToNumeric(file[i].Qty)]]

\* system_label: first match wins, on the upper-cased texts
system_label(row) ==
    LET ft   == Upper(row.FixtureType)
        desc == Upper(row.Description)
    IN  IF Contains(ft, <<"V","S","F","T">>) THEN <<"V","S","F","T">>
        ELSE IF Contains(ft, <<"V","S","I","C","T">>) THEN <<"V","S","I","C","T">>
        ELSE IF Contains(ft, <<"S","A","F","T">>) THEN <<"S","A","F","T">>
        ELSE IF Contains(desc, <<"S","P","E","A">>)
             THEN <<"S","P","E","A","3","0","3","0">>
        ELSE IF ft # <<>> THEN ft
        ELSE <<"O","T","H","E","R">>

----------------------------------------------------------------------------
(* Borrow ledger store *)

\* pd.NaT: the 'Returned At' of an open loan.  Timestamps are seconds >= 1.
NaT == 0

Columns == {"borrow_id", "Article", "PartNumber", "System", "Quantity",
            "ClientName", "ClientPhone", "Location", "BorrowedAt", "ReturnedAt"}

TimeColumns == {"BorrowedAt", "ReturnedAt"}

\* the empty cell of a column (pd.NA, in the column's type)
MissingCell(c) ==
    IF c = "Quantity" THEN Blank
    ELSE IF c \in TimeColumns THEN NaT
    ELSE NA

\* ensure_borrow_schema: missing columns added empty, other columns dropped
ensure_borrow_schema(df) ==
    [i \in DOMAIN df |->
        [c \in Columns |->
            IF c \in DOMAIN df[i] THEN df[i][c] ELSE MissingCell(c)]]

\* load_borrow: a ledger that does not exist yet is created empty
load_borrow(file) == ensure_borrow_schema(file)

\* what pd.read_excel gives back for a cell written by to_excel:
\* an empty text is an empty cell
ExcelCell(c, v) ==
    IF c = "Quantity" \/ c \in TimeColumns THEN v
    ELSE IF v = <<>> THEN NA ELSE v

\* save_borrow: the whole file is rewritten
save_borrow(df) ==
    LET canon == ensure_borrow_schema(df)
    IN  [i \in DOMAIN canon |-> [c \in Columns |-> ExcelCell(c, canon[i][c])]]

IsOpen(row) == row.ReturnedAt = NaT

----------------------------------------------------------------------------
(* Availability engine *)

\* the inventory rows of (article, system): line 92
BaseRows(df, article, system) ==
    SelectSeq(df, LAMBDA r : r.Article = article
                             /\ Upper(system_label(r)) = Upper(system))

\* base_qty: line 93
BaseQty(df, article, system) ==
    LET base == BaseRows(df, article, system)
    IN  SumSeq([i \in DOMAIN base |-> base[i].Qty])

\* faulty variant of MaskOpen: the system is compared as the caller spelled it
MaskOpenCaseSensitive(row, article, system) ==
    /\ AsStr(row.Article) = article
    /\ AsStr(row.System) = system
    /\ IsOpen(row)

\* mask_open: lines 99-103
MaskOpen(row, article, system) ==
    /\ AsStr(row.Article) = article
    /\ Upper(AsStr(row.System)) = Upper(system)
    /\ IsOpen(row)

\* used: line 104
Used(bor, article, system) ==
    LET open == SelectSeq(bor, LAMBDA r : MaskOpen(r, article, system))
    IN  SumSeq([i \in DOMAIN open |-> ToNumeric(open[i].Quantity)])

\* faulty variant of availability: the difference is not clamped at 0
availabilityUnclamped(df, file, article, system) ==
    BaseQty(df, article, system) - Used(load_borrow(file), article, system)

\* faulty variant of availability: the open loans are not subtracted
availabilityStale(df, file, article, system) ==
    Max(BaseQty(df, article, system), 0)

\* availability(df, article, system); file is BORROW_FILE at the time of the call
availability(df, file, article, system) ==
    LET bor == load_borrow(file)
    IN  IF bor = <<>>
        THEN BaseQty(df, article, system)
        ELSE Max(BaseQty(df, article, system) - Used(bor, article, system), 0)

----------------------------------------------------------------------------
(* Request bodies *)

\* a JSON value of the key 'quantity': an integer, a float (in tenths),
\* a string, null, or the key is absent
JInt(n)     == [t |-> "int",     v |-> n, s |-> <<>>]
JFloat(n10) == [t |-> "float",   v |-> n10, s |-> <<>>]
JStr(s)     == [t |-> "str",     v |-> 0, s |-> s]
JNull       == [t |-> "null",    v |-> 0, s |-> <<>>]
JAbsent     == [t |-> "missing", v |-> 0, s |-> <<>>]

DigitVal(c) == (CHOOSE i \in DOMAIN Digits : Digits[i] = c) - 1

RECURSIVE DigitsVal(_)
DigitsVal(s) ==
    IF s = <<>> THEN 0
    ELSE 10 * DigitsVal(SubSeq(s, 1, Len(s) - 1)) + DigitVal(s[Len(s)])

IsDigits(s) == s # <<>> /\ \A i \in DOMAIN s : \E d \in DOMAIN Digits : Digits[d] = s[i]

\* lines 207-211: qty_raw = data.get('quantity', 1); int(qty_raw), 0 when int() raises.
\* int() truncates a float towards zero and parses a decimal string.
PyInt(q) ==
    IF q.t = "missing" THEN 1
    ELSE IF q.t = "int" THEN q.v
    ELSE IF q.t = "float"
         THEN IF q.v >= 0 THEN q.v \div 10 ELSE -((-q.v) \div 10)
    ELSE IF q.t = "str"
         THEN LET w == Strip(q.s)
                  neg == w # <<>> /\ Head(w) = "-"
                  body == IF w # <<>> /\ Head(w) \in {"-", "+"} THEN Tail(w) ELSE w
              IN  IF IsDigits(body)
                  THEN IF neg THEN -DigitsVal(body) ELSE DigitsVal(body)
                  ELSE 0
    ELSE 0

\* lines 204-213: the fields of a borrow request, as the handler reads them
BorrowParse(data) ==
    [article      |-> Strip(data.article),
     system       |-> Strip(data.system),
     loc          |-> Strip(data.location),
     qty          |-> PyInt(data.quantity),
     client_name  |-> Strip(data.client_name),
     client_phone |-> Strip(data.client_phone)]

\* line 215
BorrowValid(p) ==
    /\ p.article # <<>>
    /\ p.system # <<>>
    /\ p.qty > 0
    /\ p.client_name # <<>>
    /\ p.client_phone # <<>>

\* faulty variant of BorrowAllowed: one unit more than available is let through
BorrowAllowedOffByOne(df, file, p) ==
    ~(p.qty > availability(df, file, p.article, p.system) + 1)

\* faulty variant of BorrowAllowed: a request for all that is available is refused
BorrowAllowedStrict(df, file, p) ==
    ~(p.qty >= availability(df, file, p.article, p.system))

\* line 219, negated: the availability check lets the request through
BorrowAllowed(df, file, p) ==
    ~(p.qty > availability(df, file, p.article, p.system))

\* line 223
ArticleRows(df, article) == SelectSeq(df, LAMBDA r : AsStr(r.Article) = article)

\* line 224
PartOf(df, article) ==
    LET sub == ArticleRows(df, article)
    IN  IF sub # <<>> THEN AsStr(sub[1].PartNumber) ELSE <<>>

\* lines 227-232: the location when the request gives none
DefaultLocation(df, article, system) ==
    LET sub      == ArticleRows(df, article)
        sys_norm == IF sub # <<>> THEN system_label(sub[1]) ELSE Upper(system)
        sub_sys  == SelectSeq(sub, LAMBDA r : Upper(system_label(r)) = sys_norm)
        locs     == SelectSeq(sub_sys, LAMBDA r : r.Location # NA)
    IN  IF locs # <<>> THEN AsStr(locs[1].Location) ELSE <<>>

LocationOf(df, p) ==
    IF p.loc # <<>> THEN p.loc ELSE DefaultLocation(df, p.article, p.system)

\* uuid.uuid4(): the n-th value drawn; all values differ
Uuid(n) == <<"u", Digits[n + 1]>>

\* faulty variant of NewRow: the system is stored as the client typed it
NewRowSystemAsTyped(df, p, bid, now) ==
    [borrow_id   |-> bid,
     Article     |-> p.article,
     PartNumber  |-> PartOf(df, p.article),
     System      |-> p.system,
     Quantity    |-> Num(p.qty),
     ClientName  |-> p.client_name,
     ClientPhone |-> p.client_phone,
     Location    |-> LocationOf(df, p),
     BorrowedAt  |-> now,
     ReturnedAt  |-> NaT]

\* lines 237-249: the new ledger row
NewRow(df, p, bid, now) ==
    [borrow_id   |-> bid,
     Article     |-> p.article,
     PartNumber  |-> PartOf(df, p.article),
     System      |-> Upper(p.system),
     Quantity    |-> Num(p.qty),
     ClientName  |-> p.client_name,
     ClientPhone |-> p.client_phone,
     Location    |-> LocationOf(df, p),
     BorrowedAt  |-> now,
     ReturnedAt  |-> NaT]

\* lines 250-251: bor is the frame load_borrow() returned at line 234
BorrowSave(bor, row) == save_borrow(bor \o <<row>>)

\* faulty variant of ReturnIds: blank ids are trimmed but not dropped
ReturnIdsKeepBlank(data) ==
    LET ids == IF data.borrow_ids # <<>> THEN data.borrow_ids
               ELSE IF data.borrow_id # <<>> THEN <<data.borrow_id>>
               ELSE <<>>
    IN  [i \in DOMAIN ids |-> Strip(ids[i])]

\* lines 262-266: the ids of a return request
ReturnIds(data) ==
    LET ids == IF data.borrow_ids # <<>> THEN data.borrow_ids
               ELSE IF data.borrow_id # <<>> THEN <<data.borrow_id>>
               ELSE <<>>
        kept == SelectSeq(ids, LAMBDA x : Strip(x) # <<>>)
    IN  [i \in DOMAIN kept |-> Strip(kept[i])]

IdSet(ids) == {ids[i] : i \in DOMAIN ids}

\* faulty variant of ReturnMask: the loan is not required to be open
ReturnMaskAnyState(row, ids) == AsStr(row.borrow_id) \in IdSet(ids)

\* line 276
ReturnMask(row, ids) == AsStr(row.borrow_id) \in IdSet(ids) /\ IsOpen(row)

\* faulty variant of UpdatedCount: the supplied ids are counted
UpdatedCountSupplied(bor, ids) == Len(ids)

\* line 277
UpdatedCount(bor, ids) == Len(SelectSeq(bor, LAMBDA r : ReturnMask(r, ids)))

\* faulty variant of MarkReturned: every open loan is closed
MarkReturnedAllOpen(bor, ids, now) ==
    [i \in DOMAIN bor |->
        IF IsOpen(bor[i]) THEN [bor[i] EXCEPT !.ReturnedAt = now] ELSE bor[i]]

\* faulty variant of MarkReturned: the rows of the supplied ids are stamped
\* whether open or closed
MarkReturnedRestamp(bor, ids, now) ==
    [i \in DOMAIN bor |->
        IF AsStr(bor[i].borrow_id) \in IdSet(ids)
        THEN [bor[i] EXCEPT !.ReturnedAt = now]
        ELSE bor[i]]

\* line 281
MarkReturned(bor, ids, now) ==
    [i \in DOMAIN bor |->
        IF ReturnMask(bor[i], ids)
        THEN [bor[i] EXCEPT !.ReturnedAt = now]
        ELSE bor[i]]

----------------------------------------------------------------------------
(* Responses *)

ErrMissingFields == "Missing required fields"
ErrNotEnough     == "Not enough units available"
ErrMissingIds    == "Missing borrow_id(s)"
ErrNoRecords     == "No borrow records"
ErrNoOpenMatch   == "No open borrows matched those IDs"
ErrMissingParams == "Missing params"
ErrNotFound      == "Not found"

NoResponse ==
    [op |-> "none", status |-> 0, ok |-> FALSE, error |-> "",
     borrow_id |-> NA, article |-> <<>>, system |-> <<>>, quantity |-> 0,
     location |-> <<>>, timestamp |-> NaT, returned |-> 0, ids |-> <<>>,
     available |-> 0]

Failure(op, status, error) ==
    [NoResponse EXCEPT !.op = op, !.status = status, !.error = error]

\* lines 252-253
BorrowOk(row) ==
    [NoResponse EXCEPT !.op = "borrow", !.status = 200, !.ok = TRUE,
        !.borrow_id = row.borrow_id, !.article = row.Article,
        !.system = row.System, !.quantity = row.Quantity.v,
        !.location = row.Location, !.timestamp = row.BorrowedAt]

\* line 283
ReturnOk(count, now, ids) ==
    [NoResponse EXCEPT !.op = "return", !.status = 200, !.ok = TRUE,
        !.returned = count, !.timestamp = now, !.ids = ids]


----------------------------------------------------------------------------
(* The texts, workbooks and request bodies the model draws from *)

tA1    == <<"A","1">>
tA2    == <<"A","2">>
tZZ    == <<"Z","Z">>
tVSFT  == <<"V","S","F","T">>
tvsft  == <<"v","s","f","t">>
tSAFT  == <<"S","A","F","T">>
tL1    == <<"L","1">>
tL2    == <<"L","2">>
tL9    == <<"L","9">>
tP1    == <<"P","1">>
tP2    == <<"P","2">>
tName  == <<"A","l">>
tPhone == <<"5","5","5">>
tSpace == <<" ">>

FixRow(a, pn, ft, desc, loc, q) ==
    [Article |-> a, PartNumber |-> pn, FixtureType |-> ft,
     Description |-> desc, Location |-> loc, Qty |-> q]

\* The workbook of the running service.  A1 is stocked under SAFT (first row,
\* 1 unit) and under VSFT (two rows of 1 unit each); A2 under VSFT (1 unit);
\* the sheet holds a negative count for A2/SAFT.
FixMain ==
    << FixRow(tA1, tP1, tSAFT, <<>>, tL2, Num(1)),
       FixRow(<<" ","A","1">>, tP1, <<"v","s","f","t","-","1","2">>, NA, tL1, Num(1)),
       FixRow(tA1, tP1, <<"V","S","F","T"," ">>, NA, NA, Num(1)),
       FixRow(tA2, tP2, tVSFT, NA, NA, Num(1)),
       FixRow(tA2, tP2, tSAFT, NA, tL2, Num(-1)) >>

\* cells that are no numbers, and a row without a fixture type
FixOdd ==
    << FixRow(tA1, tP1, tVSFT, NA, tL1, Txt),
       FixRow(tA1, tP1, tVSFT, NA, tL1, Num(1)),
       FixRow(tA2, tP2, NA, <<"s","p","e","a">>, NA, Blank) >>

\* a sheet with no data row
FixEmpty == << >>

\* a sheet whose rows exercise each rule of system_label
FixLabels ==
    << FixRow(tA1, tP1, <<"s","a","f","t","/","V","s","F","t">>, NA, NA, Num(1)),
       FixRow(tA1, tP1, <<"v","s","i","c","t","-","s","a","f","t">>, NA, NA, Num(1)),
       FixRow(tA1, tP1, <<"x","S","a","f","T">>, <<"s","p","e","a">>, NA, Num(1)),
       FixRow(tA2, tP2, <<"a","b">>, <<"a"," ","S","p","E","a","3">>, NA, Num(1)),
       FixRow(tA2, tP2, <<" ","a","b"," ">>, <<"s","p","e">>, NA, Num(1)),
       FixRow(tA2, tP2, <<" ">>, <<>>, NA, Num(1)),
       FixRow(tA2, tP2, <<" ">>, NA, NA, Num(1)),
       FixRow(tA2, tP2, NA, <<"a">>, NA, Num(1)) >>

FixFiles == {FixMain, FixOdd, FixEmpty, FixLabels}

\* ledger rows a workbook found on disk may hold
LoanRow(bid, a, s, q, ret) ==
    [borrow_id |-> bid, Article |-> a, PartNumber |-> tP1, System |-> s,
     Quantity |-> q, ClientName |-> tName, ClientPhone |-> tPhone,
     Location |-> NA, BorrowedAt |-> 1, ReturnedAt |-> ret]

\* a row of a workbook written before the System and Quantity columns existed
LegacyRow ==
    [borrow_id |-> tZZ, Article |-> tA1, Name |-> tName, BorrowedAt |-> 1]

LedgerSamples ==
    { LoanRow(tZZ, tA1, tVSFT, Num(1), NaT),
      LoanRow(tZZ, tA1, tVSFT, Num(3), NaT),
      LoanRow(tZZ, tA1, tVSFT, Num(2), 1),
      LoanRow(tZZ, tA1, tvsft, Num(1), NaT),
      LoanRow(tZZ, tA2, tSAFT, Txt, NaT),
      LegacyRow }

SeqsUpTo(S, n) == UNION { [1..k -> S] : k \in 0..n }

LedgerFiles == SeqsUpTo(LedgerSamples, MaxLoans)

Articles == {tA1, tA2, tZZ}
Systems  == {tVSFT, tvsft, tSAFT}

BorrowBody(a, s, l, q, n, ph) ==
    [article |-> a, system |-> s, location |-> l, quantity |-> q,
     client_name |-> n, client_phone |-> ph]

\* requests with every required field present
GoodBodies ==
    { BorrowBody(tA1, s, <<>>, JInt(q), tName, tPhone) :
        s \in {tVSFT, tvsft}, q \in 1..2 }
    \cup { BorrowBody(tA1, tSAFT, tL9, JInt(q), tName, tPhone) : q \in 1..2 }
    \cup { BorrowBody(tA2, tvsft, <<>>, JInt(q), tName, tPhone) : q \in 1..2 }
    \cup { BorrowBody(tA2, tSAFT, <<>>, JInt(1), tName, tPhone),
           BorrowBody(tZZ, tVSFT, <<>>, JInt(1), tName, tPhone) }

\* one field of a good request replaced
BadBodies ==
    { BorrowBody(a, tVSFT, <<>>, JInt(1), tName, tPhone) : a \in {<<>>, tSpace} }
    \cup { BorrowBody(tA1, <<>>, <<>>, JInt(1), tName, tPhone) }
    \cup { BorrowBody(tA1, tVSFT, <<>>, q, tName, tPhone) :
             q \in {JInt(0), JInt(-1), JFloat(25), JFloat(5), JStr(<<"x">>),
                    JStr(<<" ","2">>), JNull, JAbsent} }
    \cup { BorrowBody(tA1, tVSFT, <<>>, JInt(1), <<>>, tPhone),
           BorrowBody(tA1, tVSFT, <<>>, JInt(1), tName, tSpace) }

BorrowBodies == GoodBodies \cup BadBodies

\* ids a return request may name: the issued ones and one never issued
KnownIds == { Uuid(n) : n \in 1..MaxLoans }
SomeIds  == KnownIds \cup {tZZ}

ReturnBody(ids, one) == [borrow_ids |-> ids, borrow_id |-> one]

ReturnBodies ==
    { ReturnBody(<<>>, x) : x \in {Uuid(1), <<>>, tSpace} }
    \cup { ReturnBody(<<x>>, <<>>) : x \in SomeIds }
    \cup { ReturnBody(<<Uuid(1), y>>, <<>>) : y \in SomeIds \ {Uuid(1)} }
    \cup { ReturnBody(<<tSpace \o Uuid(2) \o tSpace, tSpace>>, Uuid(1)) }

----------------------------------------------------------------------------
(* State *)

Workers == 1..NumWorkers

NoRequest == [op |-> "none"]

\* a worker: where its handler stands, and the handler's local variables
Idle ==
    [pc |-> "idle", op |-> "none", data |-> NoRequest, p |-> NoRequest,
     ids |-> <<>>, bor |-> <<>>, count |-> 0, now |-> NaT, resp |-> NoResponse]

NoMemo == [id |-> NA, article |-> <<>>, system |-> <<>>, ledger |-> <<>>]

Init ==
    /\ fixFile = FixMain
    /\ ledger = <<>>
    /\ clock = 1
    /\ issued = 0
    /\ req = NoRequest
    /\ last = NoResponse
    /\ before = <<>>
    /\ memo = NoMemo
    /\ procs = [w \in Workers |-> Idle]

----------------------------------------------------------------------------
(* Handlers, each run from start to end with no other request in between *)

\* POST /api/borrow
api_borrow(data) ==
    LET p  == BorrowParse(data)
        df == load_fixtures(fixFile)
    IN  /\ req = NoRequest
        /\ req' = [op |-> "borrow", data |-> data]
        /\ before' = ledger
        /\ IF ~BorrowValid(p)
           THEN /\ last' = Failure("borrow", 400, ErrMissingFields)
                /\ UNCHANGED <<ledger, issued, memo>>
           ELSE IF ~BorrowAllowed(df, ledger, p)
           THEN /\ last' = Failure("borrow", 400, ErrNotEnough)
                /\ UNCHANGED <<ledger, issued, memo>>
           ELSE /\ issued < MaxLoans
                /\ LET row == NewRow(df, p, Uuid(issued + 1), clock)
                   IN  /\ ledger' = BorrowSave(load_borrow(ledger), row)
                       /\ last' = BorrowOk(row)
                       /\ memo' = [id |-> row.borrow_id, article |-> p.article,
                                   system |-> p.system, ledger |-> ledger]
                /\ issued' = issued + 1
        /\ UNCHANGED <<fixFile, clock, procs>>

\* POST /api/return
api_return(data) ==
    LET ids == ReturnIds(data)
        bor == load_borrow(ledger)
    IN  /\ req = NoRequest
        /\ req' = [op |-> "return", data |-> data]
        /\ before' = ledger
        /\ IF ids = <<>>
           THEN /\ last' = Failure("return", 400, ErrMissingIds)
                /\ UNCHANGED ledger
           ELSE IF bor = <<>>
           THEN /\ last' = Failure("return", 404, ErrNoRecords)
                /\ UNCHANGED ledger
           ELSE IF UpdatedCount(bor, ids) = 0
           THEN /\ last' = Failure("return", 404, ErrNoOpenMatch)
                /\ UNCHANGED ledger
           ELSE /\ ledger' = save_borrow(MarkReturned(bor, ids, clock))
                /\ last' = ReturnOk(UpdatedCount(bor, ids), clock, ids)
        /\ UNCHANGED <<fixFile, clock, issued, memo, procs>>

\* lines 186-195
DetailsOk(article, sys_norm, avail) ==
    [NoResponse EXCEPT !.op = "details", !.status = 200, !.ok = TRUE,
        !.article = article, !.system = sys_norm, !.available = avail]

\* GET /api/details
api_details(rawArticle, rawSystem) ==
    LET article  == Strip(rawArticle)
        system   == Strip(rawSystem)
        sys_norm == Upper(system)
        df       == load_fixtures(fixFile)
        sub      == BaseRows(df, article, sys_norm)
    IN  /\ req = NoRequest
        /\ req' = [op |-> "details", article |-> rawArticle, system |-> rawSystem]
        /\ before' = ledger
        /\ last' = IF article = <<>> \/ system = <<>>
                   THEN Failure("details", 400, ErrMissingParams)
                   ELSE IF sub = <<>>
                   THEN Failure("details", 404, ErrNotFound)
                   ELSE DetailsOk(article, sys_norm,
                                  availability(df, ledger, article, sys_norm))
        /\ UNCHANGED <<fixFile, ledger, clock, issued, memo, procs>>

\* the response has been sent; the server waits for the next request
Finish ==
    /\ req # NoRequest
    /\ req' = NoRequest
    /\ last' = NoResponse
    /\ before' = <<>>
    /\ memo' = IF last.op = "borrow" /\ last.ok THEN memo ELSE NoMemo
    /\ UNCHANGED <<fixFile, ledger, clock, issued, procs>>

\* a second passes between two requests
Tick ==
    /\ req = NoRequest
    /\ clock < MaxTime
    /\ clock' = clock + 1
    /\ UNCHANGED <<fixFile, ledger, issued, req, last, before, memo, procs>>

Next ==
    \/ \E data \in BorrowBodies : api_borrow(data)
    \/ \E data \in ReturnBodies : api_return(data)
    \/ Finish
    \/ Tick

Spec == Init /\ [][Next]_vars

----------------------------------------------------------------------------
(* The availability engine on any workbook pair found on disk *)

InitAvail ==
    /\ fixFile \in FixFiles
    /\ ledger \in LedgerFiles
    /\ clock = 1
    /\ issued = 0
    /\ req = NoRequest
    /\ last = NoResponse
    /\ before = <<>>
    /\ memo = NoMemo
    /\ procs = [w \in Workers |-> Idle]

NextAvail ==
    \/ \E a \in Articles \cup {<<>>}, s \in Systems \cup {<<>>} : api_details(a, s)
    \/ \E data \in GoodBodies : api_borrow(data)
    \/ Finish

SpecAvail == InitAvail /\ [][NextAvail]_vars

----------------------------------------------------------------------------
(* The threaded server: handlers of different requests interleave at their   *)
(* reads and writes of BORROW_FILE.  No lock is taken anywhere in app.py.    *)

\* requests the workers are given
ConcBorrowBodies ==
    { BorrowBody(tA1, tVSFT, <<>>, JInt(1), tName, tPhone),
      BorrowBody(tA2, tvsft, <<>>, JInt(1), tName, tPhone),
      BorrowBody(tA2, tVSFT, <<>>, JInt(2), tName, tPhone) }

ConcReturnBodies ==
    { ReturnBody(<<Uuid(1)>>, <<>>),
      ReturnBody(<<Uuid(1), Uuid(2)>>, <<>>),
      ReturnBody(<<>>, tZZ) }

\* the ledger when the workers start: empty, or one open loan of A1/VSFT
ConcLedgers ==
    { << >>,
      << [LoanRow(Uuid(1), tA1, tVSFT, Num(1), NaT) EXCEPT !.Location = tL1] >> }

InitConc ==
    /\ fixFile = FixMain
    /\ ledger \in ConcLedgers
    /\ clock = 1
    /\ issued = Len(ledger)
    /\ req = NoRequest
    /\ last = NoResponse
    /\ before = ledger
    /\ memo = NoMemo
    /\ procs = [w \in Workers |-> Idle]

\* lines 203-220: the request is read and validated, the availability computed
\* from the ledger as it is on disk now
BorrowCheck(w, data) ==
    LET p  == BorrowParse(data)
        df == load_fixtures(fixFile)
    IN  /\ procs[w].pc = "idle"
        /\ procs' = [procs EXCEPT ![w] =
              IF ~BorrowValid(p)
              THEN [Idle EXCEPT !.pc = "done", !.op = "borrow", !.data = data,
                       !.resp = Failure("borrow", 400, ErrMissingFields)]
              ELSE IF ~BorrowAllowed(df, ledger, p)
              THEN [Idle EXCEPT !.pc = "done", !.op = "borrow", !.data = data,
                       !.resp = Failure("borrow", 400, ErrNotEnough)]
              ELSE [Idle EXCEPT !.pc = "load", !.op = "borrow", !.data = data,
                       !.p = p]]
        /\ UNCHANGED <<fixFile, ledger, clock, issued, req, last, before, memo>>

\* lines 222-234: the ledger is read again, into the handler's frame
BorrowLoad(w) ==
    /\ procs[w].pc = "load"
    /\ procs' = [procs EXCEPT ![w].pc = "save", ![w].bor = load_borrow(ledger)]
    /\ UNCHANGED <<fixFile, ledger, clock, issued, req, last, before, memo>>

\* lines 235-253: the frame with the new row replaces the file
BorrowWrite(w) ==
    /\ procs[w].pc = "save"
    /\ procs[w].op = "borrow"
    /\ issued < MaxLoans
    /\ LET row == NewRow(load_fixtures(fixFile), procs[w].p, Uuid(issued + 1), clock)
       IN  /\ ledger' = BorrowSave(procs[w].bor, row)
           /\ procs' = [procs EXCEPT ![w].pc = "done", ![w].now = clock,
                                     ![w].resp = BorrowOk(row)]
    /\ issued' = issued + 1
    /\ UNCHANGED <<fixFile, clock, req, last, before, memo>>

\* lines 261-279: the ids are read, the ledger loaded and the open rows matched
ReturnLoad(w, data) ==
    LET ids == ReturnIds(data)
        bor == load_borrow(ledger)
    IN  /\ procs[w].pc = "idle"
        /\ procs' = [procs EXCEPT ![w] =
              IF ids = <<>>
              THEN [Idle EXCEPT !.pc = "done", !.op = "return", !.data = data,
                       !.resp = Failure("return", 400, ErrMissingIds)]
              ELSE IF bor = <<>>
              THEN [Idle EXCEPT !.pc = "done", !.op = "return", !.data = data,
                       !.resp = Failure("return", 404, ErrNoRecords)]
              ELSE IF UpdatedCount(bor, ids) = 0
              THEN [Idle EXCEPT !.pc = "done", !.op = "return", !.data = data,
                       !.resp = Failure("return", 404, ErrNoOpenMatch)]
              ELSE [Idle EXCEPT !.pc = "save", !.op = "return", !.data = data,
                       !.ids = ids, !.bor = bor, !.now = clock,
                       !.count = UpdatedCount(bor, ids)]]
        /\ UNCHANGED <<fixFile, ledger, clock, issued, req, last, before, memo>>

\* lines 281-283: the frame with the rows marked replaces the file
ReturnWrite(w) ==
    /\ procs[w].pc = "save"
    /\ procs[w].op = "return"
    /\ ledger' = save_borrow(MarkReturned(procs[w].bor, procs[w].ids, procs[w].now))
    /\ procs' = [procs EXCEPT ![w].pc = "done",
                    ![w].resp = ReturnOk(procs[w].count, procs[w].now, procs[w].ids)]
    /\ UNCHANGED <<fixFile, clock, issued, req, last, before, memo>>

NextConc ==
    \/ \E w \in Workers, data \in ConcBorrowBodies : BorrowCheck(w, data)
    \/ \E w \in Workers : BorrowLoad(w)
    \/ \E w \in Workers : BorrowWrite(w)
    \/ \E w \in Workers, data \in ConcReturnBodies : ReturnLoad(w, data)
    \/ \E w \in Workers : ReturnWrite(w)
    \/ Tick

SpecConc == InitConc /\ [][NextConc]_vars

----------------------------------------------------------------------------
(* Claims *)

Min(a, b) == IF a <= b THEN a ELSE b

\* the inventory as every handler sees it
DF == load_fixtures(fixFile)

\* the system labels, in upper case
Labels == { Upper(s) : s \in Systems }

\* a loan of this id is open in this ledger
OpenIn(file, id) ==
    \E i \in DOMAIN file : AsStr(load_borrow(file)[i].borrow_id) = id
                           /\ IsOpen(load_borrow(file)[i])

AllDone == \A w \in Workers : procs[w].pc = "done"

\* every worker was given a borrow of one unit of (a, s)
AllBorrowOne(a, s) ==
    \A w \in Workers :
        /\ procs[w].op = "borrow"
        /\ BorrowParse(procs[w].data).article = a
        /\ Upper(BorrowParse(procs[w].data).system) = s
        /\ BorrowParse(procs[w].data).qty = 1

\* C1: N concurrent borrows of one unit of the same (article, system) against
\* stock S: the open loans of a pair never add up to more than its stock, and
\* when all N have answered, min(N, S) succeeded, the others failed and the
\* availability is max(S - N, 0).
C1_ConcurrentBorrows ==
    \A a \in Articles, s \in Labels :
        LET S == BaseQty(DF, a, s)
            N == NumWorkers
            won == { w \in Workers : procs[w].resp.ok }
        IN  /\ S >= 0 => Used(load_borrow(ledger), a, s) <= S
            /\ (AllDone /\ before = <<>> /\ AllBorrowOne(a, s) /\ S >= 0) =>
                  /\ Cardinality(won) = Min(N, S)
                  /\ Cardinality(Workers \ won) = N - Min(N, S)
                  /\ availability(DF, ledger, a, s) = Max(S - N, 0)

\* C2: the availability a details request reports is max(baseQty - used, 0),
\* baseQty summed over the inventory rows of the pair and used over its open
\* ledger rows; closed loans do not count.
C2_AvailabilityFormula ==
    (last.op = "details" /\ last.ok) =>
        last.available =
            Max(BaseQty(DF, last.article, last.system)
                - Used(load_borrow(ledger), last.article, last.system), 0)

\* C3: availability is never negative, for every workbook pair.
C3_AvailabilityNonNegative ==
    \A a \in Articles, s \in Systems : availability(DF, ledger, a, s) >= 0

\* C4: after a successful borrow of q units the availability of the pair is
\* the availability before the borrow minus q, in every spelling of the system.
C4_BorrowLowersAvailability ==
    (req.op = "borrow" /\ last.ok) =>
        LET p == BorrowParse(req.data)
        IN  \A s \in Systems :
                Upper(s) = Upper(p.system) =>
                    availability(DF, ledger, p.article, s)
                        = availability(DF, before, p.article, s) - p.qty

\* C4 witness: a borrow that spelled the system in lower case succeeded on a
\* ledger that already held a loan
C4_Witness ==
    /\ req.op = "borrow"
    /\ last.ok
    /\ req.data.system = tvsft
    /\ before # <<>>

\* C5: a successful borrow followed at once by the return of the id it produced
\* leaves the availability of the pair as it was before the borrow.
C5_ReturnRestoresAvailability ==
    (req.op = "return" /\ last.ok /\ memo # NoMemo
        /\ ReturnIds(req.data) = <<memo.id>>) =>
        availability(DF, ledger, memo.article, memo.system)
            = availability(DF, memo.ledger, memo.article, memo.system)

\* C5 witness: such a return, where the ledger held another open loan before
\* the borrow
C5_Witness ==
    /\ req.op = "return"
    /\ last.ok
    /\ memo # NoMemo
    /\ ReturnIds(req.data) = <<memo.id>>
    /\ \E i \in DOMAIN memo.ledger : IsOpen(memo.ledger[i])

\* C6 as stated: every borrow request that asks for more than is available is
\* answered with the insufficient-availability error, the ledger unchanged.
C6_OverRequestRejected ==
    LET p == BorrowParse(req.data)
    IN  (req.op = "borrow"
            /\ p.qty > availability(DF, before, p.article, p.system)) =>
            /\ last.status = 400
            /\ last.error = ErrNotEnough
            /\ ledger = before

\* C6 amended: a borrow request that passes validation and asks for more than
\* is available is answered with the insufficient-availability error, the
\* ledger unchanged.
C6_ValidOverRequestRejected ==
    LET p == BorrowParse(req.data)
    IN  (req.op = "borrow" /\ BorrowValid(p)
            /\ p.qty > availability(DF, before, p.article, p.system)) =>
            /\ last.status = 400
            /\ last.error = ErrNotEnough
            /\ ledger = before

\* C6 witness: an over-request was refused on a ledger that holds loans
C6_Witness ==
    /\ req.op = "borrow"
    /\ BorrowValid(BorrowParse(req.data))
    /\ last.error = ErrNotEnough
    /\ before # <<>>
    /\ availability(DF, before, BorrowParse(req.data).article,
                    BorrowParse(req.data).system) > 0

\* C7: a return never changes a loan that is already closed; a return whose
\* ids name only closed or unknown loans is answered NotFound, the ledger
\* unchanged.
C7_ClosedReturnIsNoOp ==
    (req.op = "return" /\ ReturnIds(req.data) # <<>>) =>
        /\ \A i \in DOMAIN before :
              ~IsOpen(before[i]) => (i \in DOMAIN ledger /\ ledger[i] = before[i])
        /\ (\A id \in IdSet(ReturnIds(req.data)) : ~OpenIn(before, id)) =>
              /\ last.status = 404
              /\ ~last.ok
              /\ ledger = before

\* C7 witness: the return of a loan that is already closed was refused, while
\* another loan is open
C7_Witness ==
    /\ req.op = "return"
    /\ last.status = 404
    /\ \E i \in DOMAIN before :
          /\ ~IsOpen(before[i])
          /\ before[i].borrow_id \in IdSet(ReturnIds(req.data))
    /\ \E i \in DOMAIN before : IsOpen(before[i])

\* C8: a loan enters the ledger open, stays in it, and once its returnedAt is
\* set no later step clears or changes it.
C8_OneWay ==
    [][ /\ \A i \in DOMAIN ledger :
              /\ i \in DOMAIN ledger'
              /\ ledger'[i].borrow_id = ledger[i].borrow_id
              /\ ~IsOpen(ledger[i]) => ledger'[i].ReturnedAt = ledger[i].ReturnedAt
        /\ \A i \in DOMAIN ledger' \ DOMAIN ledger : IsOpen(ledger'[i]) ]_vars

\* C8 witness: a return succeeded at a later second on a ledger that already
\* held a closed loan
C8_Witness ==
    /\ req.op = "return"
    /\ last.ok
    /\ \E i \in DOMAIN before :
          ~IsOpen(before[i]) /\ before[i].ReturnedAt < last.timestamp

\* the rows a return request matches: id supplied, loan open
Hit(file, data) ==
    { i \in DOMAIN file :
        /\ AsStr(file[i].borrow_id) \in IdSet(ReturnIds(data))
        /\ IsOpen(file[i]) }

\* C9: a return succeeds exactly when a supplied id names an open loan; it then
\* closes the open rows whose id was supplied, leaves every other row as it
\* was, and reports the number of rows it closed.
C9_ReturnClosesExactly ==
    req.op = "return" =>
        LET hit == Hit(before, req.data)
        IN  /\ last.ok <=> hit # {}
            /\ last.ok =>
                  /\ DOMAIN ledger = DOMAIN before
                  /\ last.timestamp # NaT
                  /\ \A i \in hit :
                        ledger[i] = [before[i] EXCEPT !.ReturnedAt = last.timestamp]
                  /\ \A i \in DOMAIN before \ hit : ledger[i] = before[i]
                  /\ last.returned = Cardinality(hit)

\* C9 witness: a return succeeded although one supplied id matched no open
\* loan, and it left an open row alone
C9_Witness ==
    /\ req.op = "return"
    /\ last.ok
    /\ \E id \in IdSet(ReturnIds(req.data)) : ~OpenIn(before, id)
    /\ \E i \in DOMAIN ledger : IsOpen(ledger[i])

\* the JSON value is an integer greater than 0
PositiveInteger(q) ==
    \/ q.t = "int" /\ q.v > 0
    \/ q.t = "float" /\ q.v > 0 /\ q.v % 10 = 0
    \/ q.t = "str" /\ PyInt(q) > 0

\* C10: a borrow request with an empty article, system, client name or client
\* phone, or with a quantity that is no integer greater than 0, is answered
\* with the validation error; no failed borrow changes the ledger.
C10_InvalidBorrowRejected ==
    req.op = "borrow" =>
        /\ ( \/ Strip(req.data.article) = <<>>
             \/ Strip(req.data.system) = <<>>
             \/ Strip(req.data.client_name) = <<>>
             \/ Strip(req.data.client_phone) = <<>>
             \/ (req.data.quantity.t # "missing"
                   /\ ~PositiveInteger(req.data.quantity)) ) =>
              /\ last.status = 400
              /\ last.error = ErrMissingFields
              /\ ledger = before
        /\ ~last.ok => ledger = before

\* the ids a return request supplies, trimmed, blank ones left out
SuppliedIds(data) ==
    LET given == IF data.borrow_ids # <<>>
                 THEN { data.borrow_ids[i] : i \in DOMAIN data.borrow_ids }
                 ELSE { data.borrow_id }
    IN  { Strip(x) : x \in given } \ { <<>> }

\* C11: a return whose id set is empty after trimming is answered with the
\* validation error; a return with ids against an empty ledger is answered
\* NotFound; the ledger is unchanged in both cases.
C11_ReturnWithoutIdsOrLedger ==
    req.op = "return" =>
        /\ SuppliedIds(req.data) = {} =>
              /\ last.status = 400
              /\ last.error = ErrMissingIds
              /\ ledger = before
        /\ (SuppliedIds(req.data) # {} /\ before = <<>>) =>
              /\ last.status = 404
              /\ last.error = ErrNoRecords
              /\ ledger = before

\* C11 witness: ids that are blank only were refused on a ledger that holds an
\* open loan
C11_Witness ==
    /\ req.op = "return"
    /\ req.data.borrow_id # <<>>
    /\ last.error = ErrMissingIds
    /\ \E i \in DOMAIN ledger : IsOpen(ledger[i])

\* the other case of C11: ids against the empty ledger
C11_EmptyLedgerReached ==
    /\ req.op = "return"
    /\ last.error = ErrNoRecords
    /\ SuppliedIds(req.data) # {}

\* the pair (article, system) has no row in the inventory sheet
NoInventoryRow(article, system) ==
    ~ \E i \in DOMAIN DF :
         /\ DF[i].Article = article
         /\ Upper(system_label(DF[i])) = Upper(system)

FirstLocation(article, system) ==
    LET rows == SelectSeq(DF, LAMBDA r : /\ r.Article = article
                                         /\ Upper(system_label(r)) = Upper(system)
                                         /\ r.Location # NA)
    IN  IF rows # <<>> THEN AsStr(rows[1].Location) ELSE <<>>

\* C13: a successful borrow that supplies no location stores the first
\* non-empty location of the inventory rows of the requested (article,
\* system), the empty text if there is none, also when the article's first
\* inventory row belongs to another system.
C13_DefaultLocation ==
    (req.op = "borrow" /\ last.ok /\ Strip(req.data.location) = <<>>) =>
        LET p   == BorrowParse(req.data)
            row == ledger[Len(ledger)]
        IN  /\ last.location = FirstLocation(p.article, p.system)
            /\ AsStr(row.Location) = IF FirstLocation(p.article, p.system) = <<>>
                                     THEN AsStr(NA)
                                     ELSE FirstLocation(p.article, p.system)

\* a free-text input of the classifier: a missing cell counts as the empty text
TextOf(cell) == IF cell = NA THEN <<>> ELSE cell

\* the policy of the classifier on the fixture type (trimmed by the loader)
\* and the description of a sheet row
Classify(fixtureType, description) ==
    LET ft   == Upper(Strip(TextOf(fixtureType)))
        desc == Upper(TextOf(description))
    IN  CASE Contains(ft, <<"V","S","F","T">>)     -> <<"V","S","F","T">>
          [] Contains(ft, <<"V","S","I","C","T">>) -> <<"V","S","I","C","T">>
          [] Contains(ft, <<"S","A","F","T">>)     -> <<"S","A","F","T">>
          [] Contains(desc, <<"S","P","E","A">>)   -> <<"S","P","E","A","3","0","3","0">>
          [] OTHER -> IF ft # <<>> THEN ft ELSE <<"O","T","H","E","R">>

\* C14: the label of every inventory row follows the rules in order, first
\* match wins, case-insensitively: VSFT, VSICT, SAFT in the fixture type,
\* SPEA in the description, else the upper-cased fixture type, OTHER when
\* the fixture type is empty or missing.
C14_ClassifyPolicy ==
    \A i \in DOMAIN fixFile :
        system_label(DF[i]) = Classify(fixFile[i].FixtureType, fixFile[i].Description)

\* the rows of C14 whose fixture type is present: the label follows the policy
C14_PresentTypeFollowsPolicy ==
    \A i \in DOMAIN fixFile :
        fixFile[i].FixtureType # NA =>
            system_label(DF[i]) = Classify(fixFile[i].FixtureType, fixFile[i].Description)

\* C15: a successful borrow appends exactly one row, open, with an id no row
\* of the ledger had, carrying the requested article and quantity and the
\* upper-cased system, every earlier row unchanged; a return changes no field
\* other than returnedAt and removes no row.
C15_AppendOnly ==
    /\ (req.op = "borrow" /\ last.ok) =>
          /\ Len(ledger) = Len(before) + 1
          /\ \A i \in DOMAIN before : ledger[i] = before[i]
          /\ LET row == ledger[Len(ledger)]
             IN  /\ IsOpen(row)
                 /\ \A i \in DOMAIN before : before[i].borrow_id # row.borrow_id
                 /\ row.borrow_id = last.borrow_id
                 /\ row.Article = Strip(req.data.article)
                 /\ row.System = Upper(Strip(req.data.system))
                 /\ row.Quantity = Num(PyInt(req.data.quantity))
                 /\ req.data.quantity.t = "int" => row.Quantity = Num(req.data.quantity.v)
    /\ req.op = "return" =>
          /\ Len(ledger) = Len(before)
          /\ \A i \in DOMAIN before :
                [ledger[i] EXCEPT !.ReturnedAt = before[i].ReturnedAt] = before[i]

\* C15 witness: a borrow that typed its system in lower case was appended to a
\* ledger that holds a closed loan
C15_Witness ==
    /\ req.op = "borrow"
    /\ last.ok
    /\ req.data.system = tvsft
    /\ \E i \in DOMAIN before : ~IsOpen(before[i])

\* the return half of C15: a return closed a loan of a ledger of several rows
C15_ReturnReached ==
    /\ req.op = "return"
    /\ last.ok
    /\ Len(before) > 1
    /\ ledger # before

\* the worker has answered its request with success
Answered(w, op) ==
    /\ procs[w].pc = "done"
    /\ procs[w].op = op
    /\ procs[w].resp.ok

\* the ids of the loans the return of worker w closed: supplied and open in
\* the frame the worker loaded
ClosedBy(w) ==
    { procs[w].bor[i].borrow_id :
        i \in { j \in DOMAIN procs[w].bor : ReturnMask(procs[w].bor[j], procs[w].ids) } }

\* C16: with concurrent borrows and returns no update is lost: the loan of
\* every borrow answered with success, and every loan the ledger held at the
\* start, is in every later ledger, and a loan that a return answered with
\* success closed is never open again.
C16_NoLostUpdate ==
    /\ \A i \in DOMAIN before :
          \E j \in DOMAIN ledger : ledger[j].borrow_id = before[i].borrow_id
    /\ \A w \in Workers :
          /\ Answered(w, "borrow") =>
                \E j \in DOMAIN ledger : ledger[j].borrow_id = procs[w].resp.borrow_id
          /\ Answered(w, "return") =>
                \A id \in ClosedBy(w) :
                    /\ \E j \in DOMAIN ledger : ledger[j].borrow_id = id
                    /\ \A j \in DOMAIN ledger :
                          ledger[j].borrow_id = id => ~IsOpen(ledger[j])

\* the returned counts of the returns answered with success, added up
ReturnedReported ==
    SumSeq([w \in Workers |->
               IF Answered(w, "return") THEN procs[w].resp.returned ELSE 0])

\* C18: of several concurrent returns that name the same open loan at most
\* one reports it returned, and the returned counts reported add up to the
\* number of loans that moved from open to closed.
C18_ConcurrentReturns ==
    (\A w \in Workers : procs[w].op # "borrow") =>
        /\ \A id \in KnownIds :
              Cardinality({ w \in Workers : Answered(w, "return") /\ id \in ClosedBy(w) }) <= 1
        /\ AllDone =>
              ReturnedReported =
                 Cardinality({ i \in DOMAIN ledger :
                                  /\ ~IsOpen(ledger[i])
                                  /\ OpenIn(before, ledger[i].borrow_id) })

\* C17: starting from the empty ledger, after any sequence of borrow and
\* return requests served one at a time, the open loans of every pair whose
\* stock is not negative add up to no more than that stock: baseQty - used is
\* never negative.  (For a pair with nothing on loan there is nothing to show.)
C17_NeverOverLent ==
    LET df  == DF
        bor == load_borrow(ledger)
    IN  \A a \in Articles, s \in Labels :
            LET baseQty == BaseQty(df, a, s)
                used    == Used(bor, a, s)
            IN  \/ used = 0
                \/ baseQty >= 0 =>
                       /\ used <= baseQty
                       /\ baseQty - used >= 0

\* C17 witness: the whole stock of a pair, two units, is on loan in two loans
\* and one more unit of it was asked and refused
C17_Witness ==
    /\ req.op = "borrow"
    /\ last.error = ErrNotEnough
    /\ BorrowValid(BorrowParse(req.data))
    /\ Len(ledger) = 2
    /\ LET p == BorrowParse(req.data)
       IN  /\ BaseQty(DF, p.article, p.system) = 2
           /\ Used(load_borrow(ledger), p.article, p.system) = 2

\* the pairs (article, label) the rows of a set of ledger positions belong to
PairsOf(file, rows) ==
    { <<AsStr(load_borrow(file)[i].Article), Upper(AsStr(load_borrow(file)[i].System))>> :
        i \in rows }

\* the pairs a served request concerns: the pair of a borrow, the pairs of the
\* loans a return closed
Concerned ==
    IF req.op = "borrow"
    THEN { <<BorrowParse(req.data).article, Upper(BorrowParse(req.data).system)>> }
    ELSE PairsOf(before, Hit(before, req.data))

\* C19: a borrow or a return that concerns only loans of (A, S) leaves the
\* availability of every other pair as it was.
C19_Frame ==
    (req.op \in {"borrow", "return"} /\ last.ok) =>
        \A a \in Articles, s \in Labels :
            <<a, s>> \notin Concerned =>
                availability(DF, ledger, a, s) = availability(DF, before, a, s)

\* the part of C19 that concerns ledgers that already hold a row
C19_FrameOnNonEmptyLedger ==
    (req.op \in {"borrow", "return"} /\ last.ok /\ before # <<>>) =>
        \A a \in Articles, s \in Labels :
            <<a, s>> \notin Concerned =>
                availability(DF, ledger, a, s) = availability(DF, before, a, s)

\* C20: a valid borrow of q units with 0 < q <= available succeeds, also when
\* q = available; after a borrow of all that was available the availability
\* of the pair is 0, every further borrow of one unit or more of it is
\* refused, and its availability stays 0 until a loan of the pair is returned.
C20_BoundaryBorrow ==
    /\ (req.op = "borrow" /\ BorrowValid(BorrowParse(req.data))) =>
          LET p  == BorrowParse(req.data)
              av == availability(DF, before, p.article, p.system)
          IN  /\ p.qty <= av => last.ok
              /\ (p.qty = av /\ last.ok) =>
                    availability(DF, ledger, p.article, p.system) = 0
              /\ av = 0 =>
                    /\ ~last.ok
                    /\ last.error = ErrNotEnough
                    /\ ledger = before
    /\ (req.op \in {"borrow", "return"} /\ ledger # before) =>
          \A a \in Articles, s \in Labels :
              (/\ availability(DF, before, a, s) = 0
               /\ availability(DF, ledger, a, s) > 0) =>
                  /\ req.op = "return"
                  /\ last.ok
                  /\ <<a, s>> \in PairsOf(before, Hit(before, req.data))

\* C20 witness: two units were available, two were asked and lent, none is left
C20_Witness ==
    /\ req.op = "borrow"
    /\ last.ok
    /\ LET p == BorrowParse(req.data)
       IN  /\ p.qty = 2
           /\ availability(DF, before, p.article, p.system) = 2
           /\ availability(DF, ledger, p.article, p.system) = 0

\* the rest of C20's case: with nothing left a unit was asked and refused, and
\* a return made units available again
C20_RefusedReached ==
    /\ req.op = "borrow"
    /\ BorrowParse(req.data).qty = 1
    /\ last.error = ErrNotEnough
    /\ Used(load_borrow(before), BorrowParse(req.data).article,
            BorrowParse(req.data).system) = 2

C20_ReleasedReached ==
    /\ req.op = "return"
    /\ last.ok
    /\ \E a \in Articles, s \in Labels :
          /\ availability(DF, before, a, s) = 0
          /\ availability(DF, ledger, a, s) > 0

====
